---- MODULE Spec2Model ----
(***************************************************************************)
(* Orchestration state machine of the UDA-Hub customer-support agents:     *)
(* the supervisor graph of agentic/workflow.py and the four agent graphs   *)
(* of agentic/agents/{classifier,retriever,resolver,escalation}.py.        *)
(*                                                                         *)
(* The language model is a black box: every model response is an input     *)
(* drawn from a small set.  The routing model of the supervisor reads the  *)
(* supervisor transcript (state["messages"]) and nothing else; it is       *)
(* modelled as following the routing rules of SUPERVISOR_PROMPT strictly,  *)
(* and as free in whatever the rules need but the transcript lacks.        *)
(*                                                                         *)
(* A confidence is a number of 1/300ths (225 is 0.75, 180 is 0.60), so     *)
(* that values between two hundredths exist and none is a rounding tie.    *)
(*                                                                         *)
(* Spec is one turn of the supervisor graph; FairSpec is Spec with every   *)
(* enabled step eventually taken.  GatewaySpec is the tool gateway of      *)
(* agentic/tools/{ticket,cultpass,knowledge}_tools.py over the ticket      *)
(* store, called by a standalone Resolver or Escalation run (main.py) or   *)
(* directly (tests).  A comma-separated tag string is a sequence of        *)
(* pieces, each a tag name with its count of leading blanks, so that       *)
(* split, strip, sorted and join are computed as the code computes them.   *)
(*                                                                         *)
(* ThreadSpec follows the checkpointer over several turns and thread ids,  *)
(* ConcurrentSpec the invocations a caller makes from several threads at   *)
(* a time, ToolNodeSpec one ToolNode call by call, and RunSpec the         *)
(* Classifier and the Retriever run on their own (main.py) with a model    *)
(* that may ask for a tool of any name; RunFairSpec is RunSpec with every  *)
(* enabled step eventually taken.                                          *)
(***************************************************************************)
EXTENDS Integers, Sequences, FiniteSets, TLC

\* ------------------------------------------------------------------ bounds
StepCeiling == 4
MaxCalls == 1
MaxDirectCalls == 2
MaxTurns == 2
MaxSupersteps == 2
MaxParallelCalls == 2

\* --------------------------------------------------------------- constants
\* workflow.py:42-43  confidence >= 0.75, in hundredths as the marker prints it
HighThreshold == 75
\* workflow.py:46-47  confidence >= 0.60
NormalThreshold == 60

\* ticket_tools.py:187  get_customer_ticket_history(external_user_id, limit=5)
DefaultLimit == 5

END == "__end__"
NEEDS_ESCALATION == "NEEDS_ESCALATION"

Agents == {"classifier", "retriever", "resolver", "escalation"}
Urgency == {"high", "medium", "low"}

\* structured confidences the extraction pass may return, in 1/300ths
ConfSamples == {150, 179, 180, 224, 225}

CLASSIFIER_TOOLS == {"get_ticket_info", "update_ticket_status"}
RETRIEVER_TOOLS == {"search_knowledge_base"}
RESOLVER_TOOLS ==
    {"get_ticket_info", "update_ticket_status", "add_ticket_message",
     "get_customer_ticket_history", "get_user_preferences",
     "update_user_preferences", "get_cultpass_user_info",
     "get_user_reservations", "get_experience_availability"}
ESCALATION_TOOLS ==
    {"get_ticket_info", "update_ticket_status", "add_ticket_message",
     "get_cultpass_user_info"}

\* the tools a modelled response asks for: one of the agent's own tools
ToolChoices(agent) ==
    CASE agent = "retriever" -> RETRIEVER_TOOLS
      [] agent = "resolver" -> {"update_ticket_status"} \cap RESOLVER_TOOLS
      [] agent = "escalation" -> {"add_ticket_message"} \cap ESCALATION_TOOLS
      [] OTHER -> CLASSIFIER_TOOLS

\* the tools an agent's model is bound to and its ToolNode executes
ToolSet(agent) ==
    CASE agent = "classifier" -> CLASSIFIER_TOOLS
      [] agent = "retriever" -> RETRIEVER_TOOLS
      [] agent = "resolver" -> RESOLVER_TOOLS
      [] agent = "escalation" -> ESCALATION_TOOLS

\* ---------------------------------------------------------------- messages
\* role: "user" | "ai" | "tool"; name: who produced it; content: its text as
\* a sequence of tokens; tool_calls: requested tools; conf: the confidence a
\* RETRIEVAL_RESULT marker prints, in hundredths (-1 elsewhere).
Msg(role, name, content, calls, conf) ==
    [role |-> role, name |-> name, content |-> content, tool_calls |-> calls, conf |-> conf]

HumanMessage == Msg("user", "user", <<"text">>, <<>>, -1)
ToolMessage(tool) == Msg("tool", tool, <<"result">>, <<>>, -1)
HandoffMessage(agent) == Msg("tool", "transfer_to", <<"transferred", agent>>, <<>>, -1)

Last(s) == s[Len(s)]

\* Python's  token in content
Contains(content, token) == \E i \in 1..Len(content) : content[i] = token

\* a state field without a reducer: what a node returns replaces the field
add_messages_Overwrite(left, right) == right

\* langgraph.graph.message.add_messages, the reducer of every agent's
\* messages field: what a node returns is appended to the transcript (a message
\* replaces an earlier one only when it carries that one's id; every response,
\* tool result and marker is a new message with an id of its own)
add_messages(left, right) == left \o right

\* all sequences over S of length 0..n
RECURSIVE SeqsUpTo(_, _)
SeqsUpTo(S, n) ==
    IF n = 0 THEN {<<>>}
    ELSE LET shorter == SeqsUpTo(S, n - 1)
         IN  shorter \cup {Append(s, x) : s \in shorter, x \in S}

VARIABLES
    messages,        \* supervisor state["messages"] of the thread (checkpointed)
    pc,              \* "idle" | "supervisor" | the agent that is running
    node,            \* node of the running agent graph that runs next
    agentMsgs,       \* state["messages"] of the running agent graph
    steps,           \* node executions of the running agent graph
    lastAgent,       \* the agent that handed back to the supervisor last
    classification,  \* ClassifierState.classification: an urgency or "none"
    confidence,      \* RetrieverState.confidence in 1/300ths, or -1
    outcome,         \* of the turn: "none" (not started) | "running" | "done" | "failed"
    invoked,         \* agents invoked in the turn, in order
    decision,        \* what the threshold routing decision of the turn was
    resolverTools,   \* tool calls the Resolver executed in the turn
    exactAt,         \* resolverTools when a response that is exactly the
                     \* sentinel arrived in the turn, or -1
    decoratedAt,     \* the same for a response holding the sentinel and more
    lastResolver,    \* latest Resolver response of the turn, or NoMsg
    atStart          \* when the turn started: whether the thread held a
                     \* classification, and whether it held any message

VARIABLES
    llm,             \* config["configurable"]["llm"] of the run: is a model client given
    requested        \* the tool calls the latest response of the Classifier's
                     \* model asked for, while the Classifier runs

vars == <<messages, pc, node, agentMsgs, steps, lastAgent, classification,
          confidence, outcome, invoked, decision, resolverTools,
          exactAt, decoratedAt, lastResolver, atStart, llm, requested>>

NoMsg == Msg("none", "none", <<>>, <<>>, -1)
NoDecision == [urgency |-> "none", confidence |-> -1, marker |-> -1, target |-> "none"]

\* ------------------------------------------------- supervisor: routing rules
\* The routing model sees the transcript only.  What it can read there:

\* "determine the urgency from the classifier agent's output": the urgencies
\* stated by the latest message of the classifier in the transcript.
ReadUrgency(msgs) ==
    LET idx == {i \in 1..Len(msgs) : msgs[i].name = "classifier"}
    IN  IF idx = {} THEN {}
        ELSE LET m == msgs[CHOOSE i \in idx : \A j \in idx : j <= i]
             IN  {u \in Urgency : Contains(m.content, u)}

\* the confidence printed in the latest RETRIEVAL_RESULT marker, or -1
ReadMarker(msgs) ==
    LET idx == {i \in 1..Len(msgs) : Contains(msgs[i].content, "RETRIEVAL_RESULT")}
    IN  IF idx = {} THEN -1
        ELSE msgs[CHOOSE i \in idx : \A j \in idx : j <= i].conf

\* a NEW conversation: the user's message is the first of the thread
NewConversation(msgs) ==
    Cardinality({i \in 1..Len(msgs) : msgs[i].role = "user"}) = 1

\* a router that may skip the Classifier whatever the thread holds
AtTurnStart_SkipAlways(msgs) == {"classifier", "retriever"}

\* "ALWAYS start with classifier agent for NEW incoming messages";
\* "For follow-up messages in the same conversation, skip classifier agent
\* unless the topic changes" (whether it changed is the model's judgement).
AtTurnStart(msgs) ==
    IF NewConversation(msgs) THEN {"classifier"} ELSE {"classifier", "retriever"}

\* a router that goes on to the Resolver without retrieval
AfterClassifier_ToResolver == {"resolver"}

\* "After classification, ALWAYS route to retriever agent."
AfterClassifier == {"retriever"}

Threshold(urgency) ==
    IF urgency = "high" THEN HighThreshold ELSE NormalThreshold

\* confidence >= threshold -> resolver; confidence < threshold -> escalation
RouteByThreshold(urgency, conf) ==
    IF conf >= Threshold(urgency) THEN "resolver" ELSE "escalation"

\* "After retriever agent responds, determine the urgency from the classifier
\* agent's output, then apply the appropriate confidence threshold to the
\* RETRIEVAL_RESULT".  An urgency the transcript does not state is the
\* routing model's own guess.
AfterRetriever(msgs) ==
    LET stated == ReadUrgency(msgs)
        us == IF stated = {} THEN Urgency ELSE stated
    IN  {RouteByThreshold(u, ReadMarker(msgs)) : u \in us}

\* what the routing model reads as "cannot resolve" in a Resolver message
SignalsCannotResolve(content) ==
    Contains(content, NEEDS_ESCALATION) \/ Contains(content, "cannot_resolve")

\* a router that returns every Resolver message to the caller
AfterResolver_AlwaysReturn(msgs) == {END}

\* a router that hands every Resolver message to the Escalation agent
AfterResolver_AlwaysEscalate(msgs) == {"escalation"}

\* 'If resolver returns "NEEDS_ESCALATION" or signals it cannot resolve, route
\* to escalation agent.  If resolver successfully answers, return the
\* resolver's final answer directly.'
AfterResolver(msgs) ==
    IF SignalsCannotResolve(Last(msgs).content) THEN {"escalation"} ELSE {END}

\* routers that go on after the Escalation agent
AfterEscalation_ToResolver == {"resolver"}

AfterEscalation_ToClassifier == {"classifier"}

\* no rule names a successor of the escalation agent: the turn ends
AfterEscalation == {END}

SupervisorNext(msgs, last) ==
    CASE last = "none" -> AtTurnStart(msgs)
      [] last = "classifier" -> AfterClassifier
      [] last = "retriever" -> AfterRetriever(msgs)
      [] last = "resolver" -> AfterResolver(msgs)
      [] last = "escalation" -> AfterEscalation

EntryPoint(agent) ==
    IF agent = "classifier" THEN "extract_classification" ELSE "llm_call"

\* ------------------------------------------------------------ agent graphs
\* a ceiling that lets one step more through
WithinCeiling_OneMore(n) == n <= StepCeiling

\* recursion_limit: a graph run takes at most StepCeiling steps
WithinCeiling(n) == n < StepCeiling

\* an edge that looks for a tool call in every message of the transcript
tools_condition_AnyMessage(msgs) ==
    IF \E i \in 1..Len(msgs) : msgs[i].role = "ai" /\ msgs[i].tool_calls # <<>>
    THEN "tools" ELSE END

\* langgraph.prebuilt.tools_condition, the conditional edge of the Classifier
\* and of the Escalation agent
tools_condition(msgs) ==
    IF Last(msgs).role = "ai" /\ Last(msgs).tool_calls # <<>> THEN "tools" ELSE END

\* an edge that goes to the extraction whatever the response asks for
Retriever_should_continue_ExtractAlways(msgs) == "extract_retrieval"

Retriever_should_continue(msgs) ==
    IF Last(msgs).tool_calls # <<>> THEN "tools" ELSE "extract_retrieval"

\* the generic tool-call check placed before the sentinel check
Resolver_should_continue_ToolsFirst(msgs) ==
    IF Last(msgs).tool_calls # <<>> THEN "tools"
    ELSE END

\* the sentinel recognised by equality in place of containment
Resolver_should_continue_Exact(msgs) ==
    IF Last(msgs).content = <<NEEDS_ESCALATION>> THEN END
    ELSE IF Last(msgs).tool_calls # <<>> THEN "tools"
    ELSE END

Resolver_should_continue(msgs) ==
    IF Contains(Last(msgs).content, NEEDS_ESCALATION) THEN END
    ELSE IF Last(msgs).tool_calls # <<>> THEN "tools"
    ELSE END

\* ToolNode: one tool-result message per requested call, in the order requested
ToolResults(calls) == [i \in 1..Len(calls) |-> ToolMessage(calls[i])]

\* the confidence bands of RetrieverOutput.confidence and of the two prompts,
\* their ends in 1/300ths: 0.8-1.0 fully addressed, 0.6-0.79 partially,
\* 0.4-0.59 tangential, 0.0-0.39 none
ConfidenceBands ==
    {[name |-> "fully", lo |-> 240, hi |-> 300],
     [name |-> "partially", lo |-> 180, hi |-> 237],
     [name |-> "tangential", lo |-> 120, hi |-> 177],
     [name |-> "none", lo |-> 0, hi |-> 117]}

\* the bands a confidence lies in
BandsOf(c) == {b \in ConfidenceBands : b.lo <= c /\ c <= b.hi}

\* f"RETRIEVAL_RESULT: confidence={result.confidence:.2f}, ...": the
\* confidence rounded to the nearest hundredth (c is in 1/300ths)
FormatConfidence(c) == (c + 1) \div 3

\* {result.articles_found}: the integer in decimal digits
FormatArticles(n) ==
    CASE n = -1 -> "articles_found=-1"
      [] n = 0 -> "articles_found=0"
      [] n = 1 -> "articles_found=1"
      [] n = 2 -> "articles_found=2"

RetrievalMarker(c, n) ==
    Msg("ai", "retriever", <<"RETRIEVAL_RESULT", FormatArticles(n)>>, <<>>, FormatConfidence(c))

\* what the structured-output model may return for RetrieverOutput, before
\* validation: a confidence in 1/300ths and a count of articles
ModelOutputs ==
    {[confidence |-> c, articles_found |-> 2] : c \in ConfSamples}
    \cup {[confidence |-> 0, articles_found |-> 0],
          [confidence |-> 300, articles_found |-> -1],
          [confidence |-> -3, articles_found |-> 1],
          [confidence |-> 303, articles_found |-> 1]}

\* pydantic validation of RetrieverOutput: confidence has ge=0.0 and le=1.0,
\* articles_found is an int without a constraint
RetrieverOutput(o) == 0 <= o.confidence /\ o.confidence <= 300

\* responses the Resolver's model may give
ResolverContents ==
    {<<>>, <<NEEDS_ESCALATION>>, <<"sorry", NEEDS_ESCALATION>>, <<"answer">>,
     <<"cannot_resolve">>}

Responses(agent, contents) ==
    {Msg("ai", agent, c, calls, -1) :
        c \in contents, calls \in SeqsUpTo(ToolChoices(agent), MaxCalls)}
    \ {Msg("ai", agent, <<>>, <<>>, -1)}

\* output_mode="last_message": of what the agent appended, the supervisor
\* transcript receives the last message only
Surfaced(before, after) ==
    IF Len(after) > Len(before) THEN <<Last(after)>> ELSE <<>>

\* ------------------------------------------------------------ tool gateway
\* The stores the tools of agentic/tools work on, and the tools as functions
\* of the store, their arguments and whether the store (or the search
\* backend) raises while the tool runs.

\* tags of the seeded tickets, in alphabetical order
TagNames == <<"access", "billing", "login">>

TagRank(name) == CHOOSE i \in 1..Len(TagNames) : TagNames[i] = name

\* A comma-separated string is the sequence of the pieces between its commas;
\* a piece is a tag name behind pad blanks: "login, access" is
\* <<Piece(0, "login"), Piece(1, "access")>>.  The empty string and None are <<>>.
Piece(pad, name) == [pad |-> pad, name |-> name]

\* str.split(",")
Split(s) == {s[i] : i \in 1..Len(s)}

\* str.strip()
Strip(piece) == Piece(0, piece.name)

\* Python's order of strings: a blank sorts before every letter
StrLess(p, q) ==
    \/ p.pad > q.pad
    \/ p.pad = q.pad /\ TagRank(p.name) < TagRank(q.name)

\* sorted(set)
RECURSIVE Sorted(_)
Sorted(S) ==
    IF S = {} THEN <<>>
    ELSE LET least == CHOOSE p \in S : \A q \in S \ {p} : StrLess(p, q)
         IN  <<least>> \o Sorted(S \ {least})

\* ", ".join(pieces): every piece but the first comes behind one more blank
Join(pieces) ==
    [i \in 1..Len(pieces) |->
        IF i = 1 THEN pieces[i] ELSE Piece(pieces[i].pad + 1, pieces[i].name)]

\* update_ticket_status, the tags it persists
\*     existing = set(meta.tags.split(",")) if meta.tags else set()
\*     new_tags = {t.strip() for t in tags.split(",")}
\*     meta.tags = ", ".join(sorted(existing | new_tags))
MergeTags(old, tags) ==
    IF tags = <<>> THEN old
    ELSE LET existing == Split(old)
             new_tags == {Strip(t) : t \in Split(tags)}
         IN  Join(Sorted(existing \cup new_tags))

\* the tags argument a call may carry: "", "access", "login", "access,login",
\* "login, access", "billing"
TagInputs ==
    {<<>>, <<Piece(0, "access")>>, <<Piece(0, "login")>>, <<Piece(0, "billing")>>,
     <<Piece(0, "access"), Piece(0, "login")>>,
     <<Piece(0, "login"), Piece(1, "access")>>}

\* the tags a ticket is seeded with: none, or "login, access"
SeedTags == {<<>>, <<Piece(0, "login"), Piece(1, "access")>>}

\* ticket ids: T-001 is in the store (main.py seeds it), T-404 is not
TicketIds == {"T-001"}
UnknownTicket == "T-404"

\* external user ids of UdaHub users; ext-404 has no account
ExternalUserIds == {"ext-001"}
UnknownExternalUser == "ext-404"

\* CultPass users: u1 has a subscription and reservations, u2 has neither,
\* u404 is not in the store
CultpassUsers ==
    [u \in {"u1", "u2"} |-> [subscription |-> u = "u1", reservations |-> u = "u1"]]
UnknownUser == "u404"

Experiences == {"e1"}
UnknownExperience == "e404"

\* str.lower() on the roles a caller may pass
Lower(role) ==
    CASE role = "SYSTEM" -> "system"
      [] role = "AI" -> "ai"
      [] role = "User" -> "user"
      [] OTHER -> role

\* the members of udahub.RoleEnum
RoleEnum == {"user", "agent", "ai", "system"}

\* a role check that keeps whatever role it is given
StoredRole_Unnormalised(role) == Lower(role)

\* a role check that takes ai for a role of its own
StoredRole_KeepsAi(role) ==
    IF Lower(role) \in {"agent", "user", "system", "ai"} THEN Lower(role) ELSE "agent"

\* add_ticket_message: the role a message is stored with
\*     role_lower = role.lower()
\*     if role_lower not in ("agent", "user", "system"): role_lower = "agent"
StoredRole(role) ==
    IF Lower(role) \in {"agent", "user", "system"} THEN Lower(role) ELSE "agent"

\* a row of the ticket-message table
TicketMessage(ticket_id, role, content) ==
    [ticket_id |-> ticket_id, role |-> role, content |-> content]

TicketMetadata(status, issue_type, tags) ==
    [status |-> status, issue_type |-> issue_type, tags |-> tags]

\* What a tool body does: it raises, or it returns a mapping (given by its
\* keys); meta, msgs is the store with what the body wrote in its session.  A
\* reading tool that meets a fault raises at its query, a writing tool as its
\* session commits.
\* the values of a returned mapping that the model follows
NoPayload ==
    [ticket_id |-> "", role |-> "", channel |-> "", user |-> "", status |-> "", issue_type |-> "",
     tags |-> <<>>, messages |-> <<>>, tickets |-> <<>>]

Outcome(raised, keys, meta, msgs) ==
    [raised |-> raised, keys |-> keys, meta |-> meta, msgs |-> msgs,
     payload |-> NoPayload]

\* the mapping o with the values of payload
Returning(o, payload) == [o EXCEPT !.payload = payload]

\* a request to a tool: its name and arguments (unused arguments are "");
\* limit is the default of get_customer_ticket_history unless the caller gives it
Call(tool, id, status, issue_type, tags, content, role) ==
    [tool |-> tool, id |-> id, status |-> status, issue_type |-> issue_type,
     tags |-> tags, content |-> content, role |-> role, limit |-> DefaultLimit]

\* the same request with a limit of the caller's
WithLimit(c, n) == [c EXCEPT !.limit = n]

NoCall == Call("none", "", "", "", <<>>, "", "")

\* the ticket table: channel, user and creation time of every ticket of the
\* store; no tool writes it.  T-001 is the ticket the callers name; the user
\* of T-001 has two more tickets, one older and one newer, and T-004 is a
\* ticket of another user.
Tickets ==
    [t \in {"T-001", "T-002", "T-003", "T-004"} |->
        [channel |-> IF t = "T-002" THEN "email" ELSE "chat",
         user |-> IF t = "T-004" THEN "bob" ELSE "alice",
         external_user_id |-> IF t = "T-004" THEN "ext-002" ELSE "ext-001",
         created_at |-> CASE t = "T-001" -> 2 [] t = "T-002" -> 3
                          [] t = "T-003" -> 1 [] OTHER -> 4]]

\* a history that holds the rows of every ticket
MessagesOf_AllTickets(msgs, id) ==
    [k \in 1..Len(msgs) |-> [role |-> msgs[k].role, content |-> msgs[k].content]]

\* ticket.messages as get_ticket_info returns them: role and content of the
\* rows of the ticket
MessagesOf(msgs, id) ==
    LET rows == SelectSeq(msgs, LAMBDA row : row.ticket_id = id)
    IN  [k \in 1..Len(rows) |-> [role |-> rows[k].role, content |-> rows[k].content]]

\* ticket_tools.get_ticket_info, the body of its try block
get_ticket_info(meta, msgs, c, fault) ==
    IF fault THEN Outcome(TRUE, {}, meta, msgs)
    ELSE IF c.id \notin DOMAIN meta THEN Outcome(FALSE, {"error"}, meta, msgs)
    ELSE Returning(Outcome(FALSE, {"ticket_id", "channel", "created_at", "user",
                                   "status", "issue_type", "tags", "messages"},
                           meta, msgs),
                   [NoPayload EXCEPT !.ticket_id = c.id,
                                     !.channel = Tickets[c.id].channel,
                                     !.user = Tickets[c.id].user,
                                     !.status = meta[c.id].status,
                                     !.issue_type = meta[c.id].issue_type,
                                     !.tags = meta[c.id].tags,
                                     !.messages = MessagesOf(msgs, c.id)])

\* an update that writes the issue type it is given, also the empty one
NewIssueType_Overwrite(old, issue_type) == issue_type

\* update_ticket_status:  if issue_type: meta.main_issue_type = issue_type
NewIssueType(old, issue_type) == IF issue_type # "" THEN issue_type ELSE old

\* ticket_tools.update_ticket_status, the body of its try block
update_ticket_status(meta, msgs, c, fault) ==
    IF c.id \notin DOMAIN meta
    THEN Outcome(fault, IF fault THEN {} ELSE {"error"}, meta, msgs)
    ELSE Outcome(fault, IF fault THEN {} ELSE {"ticket_id", "status", "issue_type", "tags"},
                 [meta EXCEPT ![c.id] =
                     TicketMetadata(c.status,
                                    NewIssueType(@.issue_type, c.issue_type),
                                    MergeTags(@.tags, c.tags))],
                 msgs)

\* ticket_tools.add_ticket_message, the body of its try block: the ticket is
\* not looked up, the row is added whatever ticket_id is
add_ticket_message(meta, msgs, c, fault) ==
    LET role_lower == StoredRole(c.role)
    IN  IF role_lower \notin RoleEnum THEN Outcome(TRUE, {}, meta, msgs)
        ELSE LET added == Append(msgs, TicketMessage(c.id, role_lower, c.content))
             IN  IF fault THEN Outcome(TRUE, {}, meta, added)
                 ELSE Returning(Outcome(FALSE, {"ticket_id", "role", "message_id"},
                                        meta, added),
                                [NoPayload EXCEPT !.ticket_id = c.id, !.role = role_lower])

RECURSIVE OrderByCreatedDesc_Ascending(_)
RECURSIVE OrderByCreatedDesc(_)

\* a query that returns the oldest tickets first
OrderByCreatedDesc_Ascending(ids) ==
    IF ids = {} THEN <<>>
    ELSE LET oldest == CHOOSE t \in ids :
                           \A u \in ids : Tickets[t].created_at <= Tickets[u].created_at
         IN  <<oldest>> \o OrderByCreatedDesc_Ascending(ids \ {oldest})

\* .order_by(udahub.Ticket.created_at.desc())
OrderByCreatedDesc(ids) ==
    IF ids = {} THEN <<>>
    ELSE LET newest == CHOOSE t \in ids :
                           \A u \in ids : Tickets[t].created_at >= Tickets[u].created_at
         IN  <<newest>> \o OrderByCreatedDesc(ids \ {newest})

\* .limit(limit).all()  for a limit that is not negative
Limit(rows, n) == SubSeq(rows, 1, IF n < Len(rows) THEN n ELSE Len(rows))

\* ai_messages[-1] if ai_messages else None: the content of the last message
\* of the ticket stored with the role ai ("None" when there is none)
last_ai_message(msgs, id) ==
    LET ai_messages == SelectSeq(msgs, LAMBDA row : row.ticket_id = id /\ row.role = "ai")
    IN  IF ai_messages = <<>> THEN "None" ELSE ai_messages[Len(ai_messages)].content

\* ticket_tools.get_customer_ticket_history, the body of its try block
get_customer_ticket_history(meta, msgs, c, fault) ==
    IF fault THEN Outcome(TRUE, {}, meta, msgs)
    ELSE IF c.id \notin ExternalUserIds
    THEN Outcome(FALSE, {"external_user_id", "total_tickets", "tickets", "message"},
                 meta, msgs)
    ELSE LET tickets ==
                 Limit(OrderByCreatedDesc({t \in DOMAIN Tickets :
                                              Tickets[t].external_user_id = c.id}),
                       c.limit)
         IN  Returning(Outcome(FALSE, {"external_user_id", "user_name", "total_tickets",
                                       "tickets"}, meta, msgs),
                       [NoPayload EXCEPT
                           !.user = "alice",
                           !.tickets =
                               [k \in 1..Len(tickets) |->
                                   [ticket_id |-> tickets[k],
                                    status |-> IF tickets[k] \in DOMAIN meta
                                               THEN meta[tickets[k]].status ELSE "None",
                                    last_ai_message |-> last_ai_message(msgs, tickets[k])]]])

\* cultpass_tools.get_user_general_info, the body of its try block
get_user_general_info(meta, msgs, c, fault) ==
    IF fault THEN Outcome(TRUE, {}, meta, msgs)
    ELSE IF c.id \notin DOMAIN CultpassUsers THEN Outcome(FALSE, {"error"}, meta, msgs)
    ELSE Outcome(FALSE, {"user_id", "name", "email", "account_status"}, meta, msgs)

\* cultpass_tools.get_user_subscription, the body of its try block
get_user_subscription(meta, msgs, c, fault) ==
    IF fault THEN Outcome(TRUE, {}, meta, msgs)
    ELSE IF c.id \notin DOMAIN CultpassUsers THEN Outcome(FALSE, {"error"}, meta, msgs)
    ELSE IF CultpassUsers[c.id].subscription
    THEN Outcome(FALSE, {"user_id", "subscription_status", "subscription_tier",
                         "subscription_started_at", "subscription_ended_at"}, meta, msgs)
    ELSE Outcome(FALSE, {"error"}, meta, msgs)

\* cultpass_tools.get_user_reservations, the body of its try block
get_user_reservations(meta, msgs, c, fault) ==
    IF fault THEN Outcome(TRUE, {}, meta, msgs)
    ELSE IF c.id \notin DOMAIN CultpassUsers THEN Outcome(FALSE, {"error"}, meta, msgs)
    ELSE IF CultpassUsers[c.id].reservations
    THEN Outcome(FALSE, {"user_id", "reservations"}, meta, msgs)
    ELSE Outcome(FALSE, {"error"}, meta, msgs)

\* cultpass_tools.get_experience_availability, the body of its try block
get_experience_availability(meta, msgs, c, fault) ==
    IF fault THEN Outcome(TRUE, {}, meta, msgs)
    ELSE IF c.id \notin Experiences THEN Outcome(FALSE, {"error"}, meta, msgs)
    ELSE Outcome(FALSE, {"experience_title", "experience_location", "experience_time",
                         "experience_is_premium", "slots_available"}, meta, msgs)

\* cultpass_tools.search_experiences_by_keyword, the body of its try block;
\* the keyword "hit" finds experiences, any other finds none
search_experiences_by_keyword(meta, msgs, c, fault) ==
    IF fault THEN Outcome(TRUE, {}, meta, msgs)
    ELSE IF c.id # "hit" THEN Outcome(FALSE, {"experiences", "message"}, meta, msgs)
    ELSE Outcome(FALSE, {"experiences"}, meta, msgs)

\* knowledge_tools.search_knowledge_base, the body of its try block
search_knowledge_base(meta, msgs, c, fault) ==
    IF fault THEN Outcome(TRUE, {}, meta, msgs)
    ELSE IF c.id # "hit" THEN Outcome(FALSE, {"articles", "message"}, meta, msgs)
    ELSE Outcome(FALSE, {"articles"}, meta, msgs)

\* with get_session(engine) as session: what the body wrote is committed when
\* the block is left by return, and rolled back when it is left by an
\* exception; meta, msgs is the store when the session began
get_session(o, meta, msgs) ==
    IF o.raised THEN Outcome(TRUE, o.keys, meta, msgs) ELSE o

\* a tool boundary that lets the exception through
ToolBoundary_Reraise(o) == o

\* try: ... except Exception: return {"error": ...}  around every tool body
ToolBoundary(o) ==
    IF o.raised THEN Outcome(FALSE, {"error"}, o.meta, o.msgs) ELSE o

\* the tools of the gateway (registered with @mcp.tool())
GatewayOps ==
    {"get_ticket_info", "update_ticket_status", "add_ticket_message",
     "get_customer_ticket_history", "get_user_general_info",
     "get_user_subscription", "get_user_reservations",
     "search_experiences_by_keyword", "get_experience_availability",
     "search_knowledge_base"}

\* the limits a caller of get_customer_ticket_history may give
Limits == {0, 1, 2, DefaultLimit}

\* who calls the tools: the ToolNode of an agent run on its own
\* (main.run_resolver, main.run_escalation), or a caller of the tool
\* functions themselves (src/tests)
GatewayAgents == {"resolver", "escalation"}
Callers == GatewayAgents \cup {"direct"}

GatewayTools(caller) ==
    CASE caller = "resolver" -> RESOLVER_TOOLS \cap GatewayOps
      [] caller = "escalation" -> ESCALATION_TOOLS \cap GatewayOps
      [] OTHER -> GatewayOps

\* the requests a caller may make of a tool
CallsOf(tool) ==
    CASE tool \in {"get_ticket_info"} ->
            {Call(tool, id, "", "", <<>>, "", "") : id \in TicketIds \cup {UnknownTicket}}
      [] tool = "update_ticket_status" ->
            {Call(tool, id, st, "", tags, "", "") :
                id \in TicketIds \cup {UnknownTicket}, st \in {"escalated", "in_progress"},
                tags \in TagInputs}
            \cup {Call(tool, id, "resolved", "billing", <<>>, "", "") : id \in TicketIds}
      [] tool = "add_ticket_message" ->
            {Call(tool, id, "", "", <<>>, content, role) :
                id \in TicketIds \cup {UnknownTicket}, content \in {"note", "reply"},
                role \in {"agent", "User", "system", "SYSTEM", "ai", "bogus"}}
      [] tool = "get_customer_ticket_history" ->
            {WithLimit(Call(tool, id, "", "", <<>>, "", ""), n) :
                id \in ExternalUserIds \cup {UnknownExternalUser}, n \in Limits}
      [] tool \in {"get_user_general_info", "get_user_subscription",
                   "get_user_reservations"} ->
            {Call(tool, id, "", "", <<>>, "", "") :
                id \in DOMAIN CultpassUsers \cup {UnknownUser}}
      [] tool = "get_experience_availability" ->
            {Call(tool, id, "", "", <<>>, "", "") : id \in Experiences \cup {UnknownExperience}}
      [] OTHER ->
            {Call(tool, q, "", "", <<>>, "", "") : q \in {"hit", "miss"}}

VARIABLES
    metadata,        \* ticket-metadata table: ticket id -> status, issue type, tags
    ticketMessages,  \* ticket-message table, in insertion order
    gagent,          \* who calls the gateway in this behaviour ("none": nobody)
    gnode,           \* "off" | "caller" | "llm_call" | "tools" | END |
                     \* "Exception" | "GraphRecursionError"
    gsteps,          \* steps of the agent run; calls made by the direct caller
    call,            \* the latest request to a tool
    result,          \* what the latest executed request returned
    before,          \* the store when the latest executed request began
    written,         \* history: the store as the latest executed request left it
    atRunStart       \* history: the store when the run began

gvars == <<metadata, ticketMessages, gagent, gnode, gsteps, call, result, before,
           written, atRunStart>>

VARIABLES
    checkpoints,     \* MemorySaver: thread id -> the transcript saved for the thread
    thread,          \* thread id of the latest orchestrator.invoke, or "none"
    running,         \* is that invocation still running
    supersteps,      \* supersteps the running invocation has taken
    turns,           \* invocations made so far
    started,         \* history: checkpoints when the latest invocation began
    inflight         \* invocations made from several threads of the caller:
                     \* for each its thread id, where it is, the transcript
                     \* it works on and the supersteps it has taken

tvars == <<checkpoints, thread, running, supersteps, turns, started, inflight>>

VARIABLES
    toolCalls,       \* ToolNode: the tool calls of the response it was given
    ran,             \* the calls that have been run, by index, in the order run
    answers          \* the tool-result messages the ToolNode returned

pvars == <<toolCalls, ran, answers>>

\* the whole state: orchestrator, model client, stores, checkpoints, ToolNode
allvars == <<vars, gvars, tvars, pvars>>

Store(meta, msgs) == [meta |-> meta, msgs |-> msgs]

NoResult == [raised |-> FALSE, keys |-> {}, fault |-> FALSE, payload |-> NoPayload]

\* the store the smoke tests and the unit tests seed: one ticket, one message
\* of the customer
SeedStore(tags) ==
    Store([t \in DOMAIN Tickets |-> TicketMetadata("open", "login", tags)],
          <<TicketMessage("T-001", "user", "text")>>)

\* thread ids a caller may pass in config["configurable"]["thread_id"]
ThreadIds == {"thread-1", "thread-2"}

\* the invocations a caller may have under way at a time
Invocations == {"invoke-1", "invoke-2"}

\* an invocation that has not been made
NotInvoked == [thread |-> "none", at |-> "idle", local |-> <<>>, taken |-> 0]

\* the checkpointer seen apart from the turn whose steps are followed: it
\* holds nothing and is not asked
CheckpointsOff ==
    /\ checkpoints = [t \in ThreadIds |-> <<>>]
    /\ thread = "none"
    /\ running = FALSE
    /\ supersteps = 0
    /\ turns = 0
    /\ started = [t \in ThreadIds |-> <<>>]
    /\ inflight = [r \in Invocations |-> NotInvoked]

\* no ToolNode is followed call by call
ToolNodeOff ==
    /\ toolCalls = <<>>
    /\ ran = <<>>
    /\ answers = <<>>

\* nobody calls the gateway: the store stays as seeded
GatewayOff ==
    /\ metadata = SeedStore(<<>>).meta
    /\ ticketMessages = SeedStore(<<>>).msgs
    /\ gagent = "none"
    /\ gnode = "off"
    /\ gsteps = 0
    /\ call = NoCall
    /\ result = NoResult
    /\ before = SeedStore(<<>>)
    /\ written = SeedStore(<<>>)
    /\ atRunStart = SeedStore(<<>>)

\* ------------------------------------------------------------------- state
\* What the checkpointer holds for the thread when the caller comes: nothing
\* (a new thread), or what an earlier turn left: one that failed while the
\* Classifier ran, or one that the Resolver answered.  Each prior thread is
\* what a turn of this model leaves when it starts from the new thread.
PriorThreads ==
    {[messages |-> <<>>, classification |-> "none"],
     [messages |-> <<HumanMessage, HandoffMessage("classifier")>>,
      classification |-> "none"],
     [messages |-> <<HumanMessage, HandoffMessage("classifier"),
                     HandoffMessage("retriever"), RetrievalMarker(225, 2),
                     HandoffMessage("resolver"),
                     Msg("ai", "resolver", <<"answer">>, <<>>, -1),
                     Msg("ai", "supervisor", <<"answer">>, <<>>, -1)>>,
      classification |-> "low"]}

Init ==
    /\ \E prior \in PriorThreads :
        /\ messages = prior.messages
        /\ classification = prior.classification
    /\ pc = "idle"
    /\ node = "none"
    /\ agentMsgs = <<>>
    /\ steps = 0
    /\ lastAgent = "none"
    /\ confidence = -1
    /\ outcome = "none"
    /\ invoked = <<>>
    /\ decision = NoDecision
    /\ resolverTools = 0
    /\ exactAt = -1
    /\ decoratedAt = -1
    /\ lastResolver = NoMsg
    /\ atStart = [classified |-> FALSE, fresh |-> TRUE]
    /\ llm \in BOOLEAN
    /\ requested = <<>>
    /\ GatewayOff
    /\ CheckpointsOff
    /\ ToolNodeOff

history == <<invoked, decision, resolverTools, exactAt, decoratedAt, lastResolver,
             atStart>>

\* the caller submits a user message on the thread: orchestrator.invoke with
\* the thread's id; the checkpointer supplies the transcript of earlier turns.
\* A behaviour is one such call: one turn.
StartTurn ==
    /\ pc = "idle"
    /\ outcome = "none"
    /\ messages' = Append(messages, HumanMessage)
    /\ pc' = "supervisor"
    /\ lastAgent' = "none"
    /\ outcome' = "running"
    /\ invoked' = <<>>
    /\ decision' = NoDecision
    /\ resolverTools' = 0
    /\ exactAt' = -1
    /\ decoratedAt' = -1
    /\ lastResolver' = NoMsg
    /\ atStart' = [classified |-> classification # "none", fresh |-> messages = <<>>]
    /\ confidence' = -1
    /\ UNCHANGED <<node, agentMsgs, steps, classification>>
    /\ UNCHANGED <<llm, requested, gvars, tvars, pvars>>

\* the routing model hands the turn to an agent
SupervisorHandoff ==
    /\ pc = "supervisor"
    /\ \E target \in SupervisorNext(messages, lastAgent) \ {END} :
        /\ messages' = Append(messages, HandoffMessage(target))
        /\ pc' = target
        /\ node' = EntryPoint(target)
        /\ agentMsgs' = messages'
        /\ steps' = 0
        /\ invoked' = Append(invoked, target)
        /\ decision' =
             IF lastAgent = "retriever"
             THEN [urgency |-> classification, confidence |-> confidence,
                   marker |-> ReadMarker(messages), target |-> target]
             ELSE decision
    /\ UNCHANGED <<lastAgent, classification, confidence, outcome,
                   resolverTools, exactAt, decoratedAt, lastResolver, atStart>>
    /\ UNCHANGED <<llm, requested, gvars, tvars, pvars>>

\* the routing model answers the caller: the turn is done
SupervisorFinish ==
    /\ pc = "supervisor"
    /\ END \in SupervisorNext(messages, lastAgent)
    /\ messages' = Append(messages, Msg("ai", "supervisor", Last(messages).content, <<>>, -1))
    /\ pc' = "idle"
    /\ outcome' = "done"
    /\ UNCHANGED <<node, agentMsgs, steps, lastAgent, classification, confidence,
                  history>>
    /\ UNCHANGED <<llm, requested, gvars, tvars, pvars>>

\* a run that falls back to a default model client when none is configured
HasClient_DefaultClient == TRUE

\* llm = config.get("configurable", {}).get("llm", None);  llm is not None
HasClient == llm

\* a node raises: the graph run and the turn end in failure
Abort ==
    /\ pc' = "idle"
    /\ node' = "none"
    /\ agentMsgs' = <<>>
    /\ steps' = 0
    /\ outcome' = "failed"
    /\ UNCHANGED <<messages, lastAgent, classification, confidence, history>>

\* what the Classifier's model, bound to CLASSIFIER_TOOLS, may answer: an
\* urgency, with a request for one of its tools or with none
ClassifierResponses ==
    {[urgency |-> u, tool_calls |-> calls] :
        u \in Urgency, calls \in SeqsUpTo(CLASSIFIER_TOOLS, MaxCalls)}

\* llm_with_tools.with_structured_output(ClassificationOutput): of the
\* response, the fields of ClassificationOutput are kept and nothing else
with_structured_output(response) == response.urgency

\* classifier.extract_classification: the structured result goes to the
\* classification field; no message is appended, so the conditional edge
\* reads the last message the Classifier was given (in a turn of the
\* orchestrator: the hand-off, which asks for no tool)
ClassifierExtract ==
    /\ pc = "classifier" /\ node = "extract_classification"
    /\ WithinCeiling(steps)
    /\ IF HasClient
       THEN \E response \in ClassifierResponses :
                /\ classification' = with_structured_output(response)
                /\ requested' = response.tool_calls
       ELSE UNCHANGED <<classification, requested>>
    /\ node' = tools_condition(agentMsgs)
    /\ steps' = steps + 1
    /\ UNCHANGED <<messages, pc, agentMsgs, lastAgent, confidence, outcome, history>>
    /\ UNCHANGED <<llm, gvars, tvars, pvars>>

\* retriever.llm_call
RetrieverLlmCall ==
    /\ pc = "retriever" /\ node = "llm_call"
    /\ WithinCeiling(steps)
    /\ IF HasClient
       THEN \E response \in Responses("retriever", {<<>>, <<"searched">>}) :
                agentMsgs' = add_messages(agentMsgs, <<response>>)
       ELSE UNCHANGED agentMsgs
    /\ node' = Retriever_should_continue(agentMsgs')
    /\ steps' = steps + 1
    /\ UNCHANGED <<messages, pc, lastAgent, classification, confidence,
                   outcome, history>>
    /\ UNCHANGED <<llm, requested, gvars, tvars, pvars>>

\* retriever.extract_retrieval: a result that RetrieverOutput rejects raises
\* out of the structured invocation, is logged and re-raised
ExtractRetrieval ==
    /\ pc = "retriever" /\ node = "extract_retrieval"
    /\ WithinCeiling(steps)
    /\ IF HasClient
       THEN \E out \in ModelOutputs :
                IF RetrieverOutput(out)
                THEN /\ confidence' = out.confidence
                     /\ agentMsgs' = add_messages(agentMsgs,
                            <<RetrievalMarker(out.confidence, out.articles_found)>>)
                     /\ node' = END
                     /\ steps' = steps + 1
                     /\ UNCHANGED <<messages, pc, lastAgent, classification, outcome,
                                    history>>
                ELSE Abort
       ELSE /\ node' = END
            /\ steps' = steps + 1
            /\ UNCHANGED <<confidence, agentMsgs, messages, pc, lastAgent,
                           classification, outcome, history>>
    /\ UNCHANGED <<llm, requested, gvars, tvars, pvars>>

\* resolver.llm_call
ResolverLlmCall ==
    /\ pc = "resolver" /\ node = "llm_call"
    /\ HasClient
    /\ WithinCeiling(steps)
    /\ \E response \in Responses("resolver", ResolverContents) :
        /\ agentMsgs' = add_messages(agentMsgs, <<response>>)
        /\ node' = Resolver_should_continue(agentMsgs')
        /\ lastResolver' = response
        /\ exactAt' = IF response.content = <<NEEDS_ESCALATION>> /\ exactAt = -1
                      THEN resolverTools ELSE exactAt
        /\ decoratedAt' = IF /\ Contains(response.content, NEEDS_ESCALATION)
                             /\ response.content # <<NEEDS_ESCALATION>>
                             /\ decoratedAt = -1
                          THEN resolverTools ELSE decoratedAt
    /\ steps' = steps + 1
    /\ UNCHANGED <<messages, pc, lastAgent, classification, confidence,
                   outcome, invoked, decision, resolverTools, atStart>>
    /\ UNCHANGED <<llm, requested, gvars, tvars, pvars>>

\* escalation.llm_call
EscalationLlmCall ==
    /\ pc = "escalation" /\ node = "llm_call"
    /\ HasClient
    /\ WithinCeiling(steps)
    /\ \E response \in Responses("escalation", {<<>>, <<"handoff_text">>}) :
        /\ agentMsgs' = add_messages(agentMsgs, <<response>>)
        /\ node' = tools_condition(agentMsgs')
    /\ steps' = steps + 1
    /\ UNCHANGED <<messages, pc, lastAgent, classification, confidence,
                   outcome, history>>
    /\ UNCHANGED <<llm, requested, gvars, tvars, pvars>>

\* the ToolNode of the Retriever, the Resolver and the Escalation agent: the
\* calls of the last response are executed, one tool-result message per call
\* is appended in the order requested, then the model runs again
AgentTools ==
    /\ pc \in {"retriever", "resolver", "escalation"} /\ node = "tools"
    /\ WithinCeiling(steps)
    /\ agentMsgs' = add_messages(agentMsgs, ToolResults(Last(agentMsgs).tool_calls))
    /\ node' = "llm_call"
    /\ steps' = steps + 1
    /\ resolverTools' = IF pc = "resolver"
                        THEN resolverTools + Len(Last(agentMsgs).tool_calls)
                        ELSE resolverTools
    /\ UNCHANGED <<messages, pc, lastAgent, classification, confidence,
                   outcome, invoked, decision, exactAt, decoratedAt, lastResolver,
                   atStart>>
    /\ UNCHANGED <<llm, requested, gvars, tvars, pvars>>

\* the agent graph reached END: control and the agent's last message go back
\* to the supervisor
AgentReturn ==
    /\ pc \in Agents /\ node = END
    /\ messages' = messages \o Surfaced(messages, agentMsgs)
    /\ lastAgent' = pc
    /\ pc' = "supervisor"
    /\ node' = "none"
    /\ agentMsgs' = <<>>
    /\ steps' = 0
    /\ UNCHANGED <<classification, confidence, outcome, history>>
    /\ requested' = <<>>
    /\ UNCHANGED <<llm, gvars, tvars, pvars>>

\* a model invocation raises: llm_call and the extraction nodes log and
\* re-raise, nothing retries, the turn ends in failure
ModelFault ==
    /\ \/ pc = "supervisor"
       \/ /\ pc \in Agents
          /\ node \in {"llm_call", "extract_classification", "extract_retrieval"}
          /\ HasClient
    /\ Abort
    /\ UNCHANGED <<llm, requested, gvars, tvars, pvars>>

\* resolver.llm_call, escalation.llm_call without a model client: the absence
\* is logged and llm.bind_tools raises on None; the turn ends in failure
NoClientFault ==
    /\ pc \in {"resolver", "escalation"} /\ node = "llm_call"
    /\ ~HasClient
    /\ WithinCeiling(steps)
    /\ Abort
    /\ UNCHANGED <<llm, requested, gvars, tvars, pvars>>

\* the step ceiling (recursion_limit): the agent graph would need one more
\* step than the ceiling allows; GraphRecursionError ends the turn
StepCeilingExceeded ==
    /\ pc \in Agents /\ node # END
    /\ ~WithinCeiling(steps)
    /\ Abort
    /\ UNCHANGED <<llm, requested, gvars, tvars, pvars>>

Next ==
    \/ StartTurn
    \/ SupervisorHandoff
    \/ SupervisorFinish
    \/ ClassifierExtract
    \/ RetrieverLlmCall
    \/ ExtractRetrieval
    \/ ResolverLlmCall
    \/ EscalationLlmCall
    \/ AgentTools
    \/ AgentReturn
    \/ ModelFault
    \/ NoClientFault
    \/ StepCeilingExceeded

Spec == Init /\ [][Next]_allvars

\* what orchestrator.invoke gives its caller: the final state of the graph (its
\* last message is the answer) when the turn is done; the exception of the
\* failing node when the turn failed, since nothing around the compiled graph
\* catches it
TurnResult ==
    CASE outcome = "done" -> [kind |-> "state", message |-> Last(messages)]
      [] outcome = "failed" -> [kind |-> "exception", message |-> NoMsg]
      [] OTHER -> [kind |-> "none", message |-> NoMsg]

\* the graph runner (Pregel loop of invoke) takes the next step of a turn
\* whenever there is one
FairSpec == Spec /\ WF_allvars(Next)

\* ------------------------------------------------- agent runs on the store
\* The orchestrator is not running while an agent is run on its own or a
\* tool is called directly.
OrchestratorOff ==
    /\ messages = <<>>
    /\ classification = "none"
    /\ pc = "off"
    /\ node = "none"
    /\ agentMsgs = <<>>
    /\ steps = 0
    /\ lastAgent = "none"
    /\ confidence = -1
    /\ outcome = "none"
    /\ invoked = <<>>
    /\ decision = NoDecision
    /\ resolverTools = 0
    /\ exactAt = -1
    /\ decoratedAt = -1
    /\ lastResolver = NoMsg
    /\ atStart = [classified |-> FALSE, fresh |-> TRUE]
    /\ llm = TRUE
    /\ requested = <<>>

\* main.run_resolver, main.run_escalation: agent.invoke(state, config=_CONFIG)
\* on a seeded store; or the tools called as functions
GatewayInit ==
    /\ OrchestratorOff
    /\ \E tags \in SeedTags :
        /\ metadata = SeedStore(tags).meta
        /\ ticketMessages = SeedStore(tags).msgs
        /\ before = SeedStore(tags)
        /\ written = SeedStore(tags)
        /\ atRunStart = SeedStore(tags)
    /\ gagent \in Callers
    /\ gnode = IF gagent = "direct" THEN "caller" ELSE "llm_call"
    /\ gsteps = 0
    /\ call = NoCall
    /\ result = NoResult
    /\ CheckpointsOff
    /\ ToolNodeOff

\* what the model of an agent run may answer: a text, for the Resolver the
\* sentinel too, with one request to a tool of the agent or with none
GatewayResponses(agent) ==
    {[content |-> content, request |-> c] :
        content \in IF agent = "resolver" THEN {<<"text">>, <<NEEDS_ESCALATION>>}
                    ELSE {<<"text">>},
        c \in {NoCall} \cup UNION {CallsOf(tool) : tool \in GatewayTools(agent)}}

\* the response as the message the conditional edge reads
AsMessage(agent, r) ==
    Msg("ai", agent, r.content,
        IF r.request = NoCall THEN <<>> ELSE <<r.request.tool>>, -1)

\* the conditional edge behind llm_call: resolver._should_continue for the
\* Resolver, tools_condition for the Escalation agent
GatewayEdge(agent, r) ==
    IF agent = "resolver" THEN Resolver_should_continue(<<AsMessage(agent, r)>>)
    ELSE tools_condition(<<AsMessage(agent, r)>>)

\* resolver.llm_call, escalation.llm_call and the conditional edge: the run
\* goes on to the tool the response asks for, or it is at its END
GatewayLlmCall ==
    /\ gagent \in GatewayAgents /\ gnode = "llm_call"
    /\ WithinCeiling(gsteps)
    /\ \E r \in GatewayResponses(gagent) :
        /\ gnode' = GatewayEdge(gagent, r)
        /\ IF gnode' = "tools"
           THEN call' = r.request /\ result' = NoResult
           ELSE UNCHANGED <<call, result>>
    /\ gsteps' = gsteps + 1
    /\ UNCHANGED <<metadata, ticketMessages, gagent, before, written, atRunStart>>
    /\ UNCHANGED <<vars, tvars, pvars>>

\* a test or another caller calls a tool function
DirectCall ==
    /\ gagent = "direct" /\ gnode = "caller"
    /\ gsteps < MaxDirectCalls
    /\ \E tool \in GatewayTools(gagent) : \E c \in CallsOf(tool) : call' = c
    /\ gnode' = "tools"
    /\ result' = NoResult
    /\ gsteps' = gsteps + 1
    /\ UNCHANGED <<metadata, ticketMessages, gagent, before, written, atRunStart>>
    /\ UNCHANGED <<vars, tvars, pvars>>

\* the requested tool runs: its body inside its try/except, on a store that
\* may raise; what the body wrote is committed when its session closes
ToolStep(fault, body) ==
    /\ gnode = "tools"
    /\ gagent \in GatewayAgents => WithinCeiling(gsteps)
    /\ LET o == ToolBoundary(get_session(body, metadata, ticketMessages))
       IN  /\ metadata' = o.meta
           /\ ticketMessages' = o.msgs
           /\ written' = Store(o.meta, o.msgs)
           /\ result' = [raised |-> o.raised, keys |-> o.keys, fault |-> fault,
                         payload |-> o.payload]
    /\ before' = Store(metadata, ticketMessages)
    /\ gnode' = IF gagent = "direct" THEN "caller" ELSE "llm_call"
    /\ gsteps' = IF gagent = "direct" THEN gsteps ELSE gsteps + 1
    /\ UNCHANGED <<gagent, call, atRunStart>>
    /\ UNCHANGED <<vars, tvars, pvars>>

GetTicketInfo ==
    /\ call.tool = "get_ticket_info"
    /\ \E fault \in BOOLEAN :
        ToolStep(fault, get_ticket_info(metadata, ticketMessages, call, fault))
UpdateTicketStatus ==
    /\ call.tool = "update_ticket_status"
    /\ \E fault \in BOOLEAN :
        ToolStep(fault, update_ticket_status(metadata, ticketMessages, call, fault))
AddTicketMessage ==
    /\ call.tool = "add_ticket_message"
    /\ \E fault \in BOOLEAN :
        ToolStep(fault, add_ticket_message(metadata, ticketMessages, call, fault))
GetCustomerTicketHistory ==
    /\ call.tool = "get_customer_ticket_history"
    /\ \E fault \in BOOLEAN :
        ToolStep(fault, get_customer_ticket_history(metadata, ticketMessages, call, fault))
GetUserGeneralInfo ==
    /\ call.tool = "get_user_general_info"
    /\ \E fault \in BOOLEAN :
        ToolStep(fault, get_user_general_info(metadata, ticketMessages, call, fault))
GetUserSubscription ==
    /\ call.tool = "get_user_subscription"
    /\ \E fault \in BOOLEAN :
        ToolStep(fault, get_user_subscription(metadata, ticketMessages, call, fault))
GetUserReservations ==
    /\ call.tool = "get_user_reservations"
    /\ \E fault \in BOOLEAN :
        ToolStep(fault, get_user_reservations(metadata, ticketMessages, call, fault))
SearchExperiencesByKeyword ==
    /\ call.tool = "search_experiences_by_keyword"
    /\ \E fault \in BOOLEAN :
        ToolStep(fault, search_experiences_by_keyword(metadata, ticketMessages, call, fault))
GetExperienceAvailability ==
    /\ call.tool = "get_experience_availability"
    /\ \E fault \in BOOLEAN :
        ToolStep(fault, get_experience_availability(metadata, ticketMessages, call, fault))
SearchKnowledgeBase ==
    /\ call.tool = "search_knowledge_base"
    /\ \E fault \in BOOLEAN :
        ToolStep(fault, search_knowledge_base(metadata, ticketMessages, call, fault))

\* a run that undoes what its tools wrote when it is aborted
StoreAfterAbort_Rollback(current, start) == start

\* GraphRecursionError is raised out of agent.invoke; every tool committed in
\* a session of its own, and nothing undoes a commit
StoreAfterAbort(current, start) == current

\* the model invocation of llm_call raises: logged and re-raised
GatewayModelFault ==
    /\ gagent \in GatewayAgents /\ gnode = "llm_call"
    /\ WithinCeiling(gsteps)
    /\ gnode' = "Exception"
    /\ UNCHANGED <<metadata, ticketMessages, gagent, gsteps, call, result, before,
                   written, atRunStart>>
    /\ UNCHANGED <<vars, tvars, pvars>>

\* the run would need one more step than recursion_limit allows
GatewayStepCeiling ==
    /\ gagent \in GatewayAgents /\ gnode \in {"llm_call", "tools"}
    /\ ~WithinCeiling(gsteps)
    /\ gnode' = "GraphRecursionError"
    /\ LET kept == StoreAfterAbort(Store(metadata, ticketMessages), atRunStart)
       IN  /\ metadata' = kept.meta
           /\ ticketMessages' = kept.msgs
    /\ UNCHANGED <<gagent, gsteps, call, result, before, written, atRunStart>>
    /\ UNCHANGED <<vars, tvars, pvars>>

GatewayNext ==
    \/ GatewayLlmCall
    \/ DirectCall
    \/ GetTicketInfo
    \/ UpdateTicketStatus
    \/ AddTicketMessage
    \/ GetCustomerTicketHistory
    \/ GetUserGeneralInfo
    \/ GetUserSubscription
    \/ GetUserReservations
    \/ SearchExperiencesByKeyword
    \/ GetExperienceAvailability
    \/ SearchKnowledgeBase
    \/ GatewayModelFault
    \/ GatewayStepCeiling

GatewaySpec == GatewayInit /\ [][GatewayNext]_allvars

\* ------------------------------------------------ the ToolNode, call by call
\* langgraph.prebuilt.ToolNode as the agents use it: the tool calls of the last
\* response are run in parallel (a thread pool maps the calls), every call in
\* a session of its own; the outputs are collected in the order of the calls.

\* the requests a response of the Resolver or of the Escalation agent is
\* followed with: two updates of the ticket and a message to its thread
ToolNodeRequests ==
    {Call("update_ticket_status", "T-001", "in_progress", "", <<Piece(0, "access")>>, "", ""),
     Call("update_ticket_status", "T-001", "escalated", "", <<Piece(0, "login")>>, "", ""),
     Call("add_ticket_message", "T-001", "", "", <<>>, "reply", "agent")}

\* the body of the tool a request names
ToolBody(meta, msgs, c) ==
    IF c.tool = "update_ticket_status" THEN update_ticket_status(meta, msgs, c, FALSE)
    ELSE add_ticket_message(meta, msgs, c, FALSE)

\* agent.invoke(state, config) of the Resolver or the Escalation agent on the
\* seeded store
ToolNodeInit ==
    /\ OrchestratorOff
    /\ CheckpointsOff
    /\ ToolNodeOff
    /\ \E tags \in SeedTags :
        /\ metadata = SeedStore(tags).meta
        /\ ticketMessages = SeedStore(tags).msgs
        /\ before = SeedStore(tags)
        /\ written = SeedStore(tags)
        /\ atRunStart = SeedStore(tags)
    /\ gagent \in GatewayAgents
    /\ gnode = "llm_call"
    /\ gsteps = 0
    /\ call = NoCall
    /\ result = NoResult

\* llm_call and the conditional edge: the response asks for some tools, or
\* for none and the run is at its END
ToolNodeLlmCall ==
    /\ gnode = "llm_call"
    /\ WithinCeiling(gsteps)
    /\ \E requests \in SeqsUpTo(ToolNodeRequests, MaxParallelCalls) :
        /\ toolCalls' = requests
        /\ gnode' = tools_condition(<<Msg("ai", gagent, <<"text">>, requests, -1)>>)
    /\ ran' = <<>>
    /\ answers' = <<>>
    /\ gsteps' = gsteps + 1
    /\ UNCHANGED <<metadata, ticketMessages, gagent, call, result, before, written,
                   atRunStart>>
    /\ UNCHANGED <<vars, tvars>>

\* ToolNode._run_one in a thread of the pool: one of the calls not run yet is
\* run, whichever the scheduler takes
RunOne ==
    /\ gnode = "tools"
    /\ WithinCeiling(gsteps)
    /\ \E i \in 1..Len(toolCalls) :
        /\ \A k \in 1..Len(ran) : ran[k] # i
        /\ LET o == ToolBoundary(get_session(ToolBody(metadata, ticketMessages, toolCalls[i]),
                                             metadata, ticketMessages))
           IN  /\ metadata' = o.meta
               /\ ticketMessages' = o.msgs
        /\ ran' = Append(ran, i)
    /\ UNCHANGED <<gagent, gnode, gsteps, call, result, before, written, atRunStart>>
    /\ UNCHANGED <<toolCalls, answers>>
    /\ UNCHANGED <<vars, tvars>>

\* every call has been run: the ToolNode returns one tool-result message per
\* call, in the order of the calls, and the edge leads back to llm_call
Collect ==
    /\ gnode = "tools"
    /\ Len(ran) = Len(toolCalls)
    /\ answers' = ToolResults([i \in 1..Len(toolCalls) |-> toolCalls[i].tool])
    /\ gnode' = "llm_call"
    /\ gsteps' = gsteps + 1
    /\ UNCHANGED <<metadata, ticketMessages, gagent, call, result, before, written,
                   atRunStart>>
    /\ UNCHANGED <<toolCalls, ran>>
    /\ UNCHANGED <<vars, tvars>>

\* the run would need one more step than recursion_limit allows
ToolNodeStepCeiling ==
    /\ gnode \in {"llm_call", "tools"}
    /\ ~WithinCeiling(gsteps)
    /\ gnode' = "GraphRecursionError"
    /\ UNCHANGED <<metadata, ticketMessages, gagent, gsteps, call, result, before,
                   written, atRunStart>>
    /\ UNCHANGED pvars
    /\ UNCHANGED <<vars, tvars>>

ToolNodeNext ==
    \/ ToolNodeLlmCall
    \/ RunOne
    \/ Collect
    \/ ToolNodeStepCeiling

ToolNodeSpec == ToolNodeInit /\ [][ToolNodeNext]_allvars

\* ------------------------------------------------- turns on several threads
\* orchestrator = supervisor_graph.compile(checkpointer=MemorySaver()): every
\* superstep of an invocation saves the state of the graph under the thread id
\* of the invocation, and an invocation starts from what is saved under its
\* thread id.  A turn is followed here by the messages its supersteps append.

\* a saver that keeps one transcript whatever the thread id
CheckpointKey_OneThread(thread_id) == "thread-1"

\* MemorySaver keys its storage by config["configurable"]["thread_id"]
CheckpointKey(thread_id) == thread_id

\* checkpointer.get_tuple
Load(saved, thread_id) == saved[CheckpointKey(thread_id)]

\* checkpointer.put
Save(saved, thread_id, msgs) == [saved EXCEPT ![CheckpointKey(thread_id)] = msgs]

\* messages a superstep of a turn appends: a hand-off, an answer of an agent
SuperstepMessages ==
    {HandoffMessage("retriever"), Msg("ai", "resolver", <<"answer">>, <<>>, -1)}

\* the saver holds, for every thread, nothing or what an earlier turn left
ThreadInit ==
    /\ OrchestratorOff
    /\ GatewayOff
    /\ checkpoints \in [ThreadIds -> {prior.messages : prior \in PriorThreads}]
    /\ thread = "none"
    /\ running = FALSE
    /\ supersteps = 0
    /\ turns = 0
    /\ started = checkpoints
    /\ inflight = [r \in Invocations |-> NotInvoked]
    /\ ToolNodeOff

\* orchestrator.invoke({"messages": [user message]}, config with a thread id):
\* the state saved for the thread is loaded, add_messages appends the input
Invoke ==
    /\ ~running
    /\ turns < MaxTurns
    /\ \E t \in ThreadIds :
        /\ thread' = t
        /\ checkpoints' = Save(checkpoints, t, Append(Load(checkpoints, t), HumanMessage))
    /\ started' = checkpoints
    /\ running' = TRUE
    /\ supersteps' = 0
    /\ turns' = turns + 1
    /\ UNCHANGED inflight
    /\ UNCHANGED <<vars, gvars, pvars>>

\* a superstep of the running invocation: add_messages appends what the node
\* returned, and the state is saved under the thread id
Superstep ==
    /\ running
    /\ supersteps < MaxSupersteps
    /\ \E m \in SuperstepMessages :
        checkpoints' = Save(checkpoints, thread, Append(Load(checkpoints, thread), m))
    /\ supersteps' = supersteps + 1
    /\ UNCHANGED <<thread, running, turns, started, inflight>>
    /\ UNCHANGED <<vars, gvars, pvars>>

\* the invocation returns or raises: what was saved stays saved
InvokeEnds ==
    /\ running
    /\ running' = FALSE
    /\ UNCHANGED <<checkpoints, thread, supersteps, turns, started, inflight>>
    /\ UNCHANGED <<vars, gvars, pvars>>

ThreadNext ==
    \/ Invoke
    \/ Superstep
    \/ InvokeEnds

ThreadSpec == ThreadInit /\ [][ThreadNext]_allvars

\* ------------------------------------------- invocations made concurrently
\* orchestrator is a module-level compiled graph: a caller with several
\* threads (a web server, a worker pool) may call orchestrator.invoke while
\* another call is under way.  Neither invoke nor MemorySaver holds a lock for
\* a thread id: every invocation loads the saved state when it starts, works
\* on its own copy, and saves that copy under the thread id at every superstep.

ConcurrentInit ==
    /\ OrchestratorOff
    /\ GatewayOff
    /\ ToolNodeOff
    /\ checkpoints \in [ThreadIds -> {prior.messages : prior \in PriorThreads}]
    /\ thread = "none"
    /\ running = FALSE
    /\ supersteps = 0
    /\ turns = 0
    /\ started = checkpoints
    /\ inflight = [r \in Invocations |-> NotInvoked]

\* the superstep of an invocation: what the node returned is appended to the
\* invocation's copy of the transcript, and the copy is saved under its thread id
Advance(r, thread_id, msgs, at) ==
    /\ inflight' = [inflight EXCEPT ![r] =
                        [thread |-> thread_id, at |-> at, local |-> msgs,
                         taken |-> inflight[r].taken + 1]]
    /\ checkpoints' = Save(checkpoints, thread_id, msgs)

\* orchestrator.invoke({"messages": [user message]}, config with a thread id)
\* from a thread of the caller
ConcurrentInvoke ==
    /\ \E r \in Invocations, t \in ThreadIds :
        /\ inflight[r].at = "idle"
        /\ Advance(r, t, Append(Load(checkpoints, t), HumanMessage), "supervisor")
    /\ UNCHANGED <<thread, running, supersteps, turns, started>>
    /\ UNCHANGED <<vars, gvars, pvars>>

\* the supervisor of an invocation hands over to an agent
ConcurrentHandoff ==
    /\ \E r \in Invocations, agent \in {"retriever", "resolver"} :
        /\ inflight[r].at = "supervisor"
        /\ inflight[r].taken <= MaxSupersteps
        /\ Advance(r, inflight[r].thread,
                   Append(inflight[r].local, HandoffMessage(agent)), agent)
    /\ UNCHANGED <<thread, running, supersteps, turns, started>>
    /\ UNCHANGED <<vars, gvars, pvars>>

\* the agent of an invocation hands back its last message
ConcurrentAgentReturn ==
    /\ \E r \in Invocations :
        /\ inflight[r].at \in Agents
        /\ Advance(r, inflight[r].thread,
                   Append(inflight[r].local,
                          Msg("ai", inflight[r].at, <<"answer">>, <<>>, -1)),
                   "supervisor")
    /\ UNCHANGED <<thread, running, supersteps, turns, started>>
    /\ UNCHANGED <<vars, gvars, pvars>>

\* the supervisor of an invocation answers the caller
ConcurrentFinish ==
    /\ \E r \in Invocations :
        /\ inflight[r].at = "supervisor"
        /\ inflight[r].taken > 1
        /\ inflight' = [inflight EXCEPT ![r].at = "done"]
    /\ UNCHANGED <<checkpoints, thread, running, supersteps, turns, started>>
    /\ UNCHANGED <<vars, gvars, pvars>>

ConcurrentNext ==
    \/ ConcurrentInvoke
    \/ ConcurrentHandoff
    \/ ConcurrentAgentReturn
    \/ ConcurrentFinish

ConcurrentSpec == ConcurrentInit /\ [][ConcurrentNext]_allvars

\* ------------------------------- the Classifier and the Retriever on their own
\* main.run_classifier, main.run_retriever: agent.invoke(state, config=_CONFIG)
\* with a transcript of the caller's.  The model may ask for a tool of any
\* name; the ToolNode of the agent holds the agent's tools and no other.

\* the tool names a message may ask for
RequestedNames ==
    {"search_knowledge_base", "get_ticket_info", "update_ticket_status",
     "add_ticket_message"}

\* the arguments that come with a requested name
RequestOf(name) ==
    CASE name = "search_knowledge_base" -> Call(name, "hit", "", "", <<>>, "", "")
      [] name = "get_ticket_info" -> Call(name, "T-001", "", "", <<>>, "", "")
      [] name = "update_ticket_status" ->
            Call(name, "T-001", "in_progress", "", <<Piece(0, "billing")>>, "", "")
      [] OTHER -> Call(name, "T-001", "", "", <<>>, "note", "ai")

\* the transcripts a caller may pass: a message of the user, alone or with an
\* assistant message behind it that asks for no tool, asks for tools, or asked
\* for tools that have been answered
RunInputs ==
    {<<HumanMessage>>, <<HumanMessage, Msg("ai", "caller", <<"text">>, <<>>, -1)>>}
    \cup UNION {{<<HumanMessage, Msg("ai", "caller", <<"text">>, calls, -1)>>,
                 <<HumanMessage, Msg("ai", "caller", <<"text">>, calls, -1)>>
                     \o ToolResults(calls)} :
                    calls \in SeqsUpTo(RequestedNames, MaxCalls) \ {<<>>}}

\* what the Retriever's model may answer when bound to RETRIEVER_TOOLS: it
\* asks for its own tool, for a tool that writes to the ticket store, or for none
RunResponses ==
    {Msg("ai", "retriever", <<"searched">>, calls, -1) :
        calls \in SeqsUpTo(RequestedNames \ {"get_ticket_info"}, MaxCalls)}

RunInit ==
    /\ pc \in {"classifier", "retriever"}
    /\ node = EntryPoint(pc)
    /\ messages \in RunInputs
    /\ agentMsgs = messages
    /\ steps = 0
    /\ lastAgent = "none"
    /\ classification = "none"
    /\ confidence = -1
    /\ outcome = "running"
    /\ invoked = <<>>
    /\ decision = NoDecision
    /\ resolverTools = 0
    /\ exactAt = -1
    /\ decoratedAt = -1
    /\ lastResolver = NoMsg
    /\ atStart = [classified |-> FALSE, fresh |-> TRUE]
    /\ llm \in BOOLEAN
    /\ requested = <<>>
    /\ GatewayOff
    /\ CheckpointsOff
    /\ ToolNodeOff

\* a ToolNode that runs every tool of the gateway
ValidToolCall_AnyGatewayTool(agent, name) == name \in GatewayOps

\* ToolNode(tools): a call is run when its name is the name of one of the
\* tools the node was built with; any other call is answered with an error
\* message and nothing is run
ValidToolCall(agent, name) == name \in ToolSet(agent)

\* the tool-result message of a call that names no tool of the node
InvalidToolMessage(name) == Msg("tool", name, <<"Error", "not_a_valid_tool">>, <<>>, -1)

\* the body of the tool a request names
RunToolBody(meta, msgs, c) ==
    CASE c.tool = "get_ticket_info" -> get_ticket_info(meta, msgs, c, FALSE)
      [] c.tool = "search_knowledge_base" -> search_knowledge_base(meta, msgs, c, FALSE)
      [] OTHER -> ToolBody(meta, msgs, c)

\* the orders in which the calls with the indexes of S may be run
Orders(S) ==
    {order \in SeqsUpTo(S, Cardinality(S)) :
        /\ Len(order) = Cardinality(S)
        /\ \A i, j \in 1..Len(order) : i # j => order[i] # order[j]}

\* the store after the calls have been run in the given order, every call in
\* a session of its own
RECURSIVE RunAll(_, _, _)
RunAll(store, requests, order) ==
    IF order = <<>> THEN store
    ELSE LET o == ToolBoundary(get_session(
                      RunToolBody(store.meta, store.msgs, requests[order[1]]),
                      store.meta, store.msgs))
         IN  RunAll(Store(o.meta, o.msgs), requests, SubSeq(order, 2, Len(order)))

\* retriever.llm_call with a model that may ask for a tool of any name
RunLlmCall ==
    /\ pc = "retriever" /\ node = "llm_call"
    /\ WithinCeiling(steps)
    /\ IF HasClient
       THEN \E response \in RunResponses :
                agentMsgs' = add_messages(agentMsgs, <<response>>)
       ELSE UNCHANGED agentMsgs
    /\ node' = Retriever_should_continue(agentMsgs')
    /\ steps' = steps + 1
    /\ UNCHANGED <<messages, pc, lastAgent, classification, confidence,
                   outcome, history>>
    /\ UNCHANGED <<llm, requested, gvars, tvars, pvars>>

\* the ToolNode of the Classifier or of the Retriever: the calls of the last
\* message that name a tool of the node are run, in parallel, and every call
\* is answered by one tool-result message, in the order of the calls; the
\* edge behind the node leads to extract_classification or to llm_call
RunTools ==
    /\ pc \in {"classifier", "retriever"} /\ node = "tools"
    /\ WithinCeiling(steps)
    /\ LET names == Last(agentMsgs).tool_calls
           requests == [i \in 1..Len(names) |-> RequestOf(names[i])]
           valid == {i \in 1..Len(names) : ValidToolCall(pc, names[i])}
       IN  /\ \E order \in Orders(valid) :
                 /\ ran' = order
                 /\ LET store == RunAll(Store(metadata, ticketMessages), requests, order)
                    IN  /\ metadata' = store.meta
                        /\ ticketMessages' = store.msgs
           /\ toolCalls' = requests
           /\ answers' = [i \in 1..Len(names) |->
                             IF i \in valid THEN ToolMessage(names[i])
                             ELSE InvalidToolMessage(names[i])]
    /\ agentMsgs' = add_messages(agentMsgs, answers')
    /\ node' = IF pc = "classifier" THEN "extract_classification" ELSE "llm_call"
    /\ steps' = steps + 1
    /\ UNCHANGED <<messages, pc, lastAgent, classification, confidence,
                   outcome, history>>
    /\ UNCHANGED <<gagent, gnode, gsteps, call, result, before, written, atRunStart>>
    /\ UNCHANGED <<llm, requested, tvars>>

RunNext ==
    \/ ClassifierExtract
    \/ RunLlmCall
    \/ ExtractRetrieval
    \/ RunTools
    \/ ModelFault
    \/ StepCeilingExceeded

RunSpec == RunInit /\ [][RunNext]_allvars

\* the graph runner takes the next step of a run whenever there is one
RunFairSpec == RunSpec /\ WF_allvars(RunNext)

\* ------------------------------------------------------------------ claims
RoutingAgents == {"resolver", "escalation"}

Decided == decision.target # "none"

\* the agent invoked right after the i-th one of the turn, if any
Successor(i) == invoked[i + 1]

\* C1: at the threshold decision of a turn whose latest classification has
\* urgency high, the Resolver is invoked next if the retrieval confidence is
\* at least 0.75 and the Escalation agent if it is below 0.75.
C1_HighUrgencyRouting ==
    (Decided /\ decision.urgency = "high") =>
        decision.target =
            (IF decision.confidence >= 3 * HighThreshold THEN "resolver" ELSE "escalation")

\* C2: at the threshold decision of a turn whose latest classification has
\* urgency medium or low, the Resolver is invoked next if the retrieval
\* confidence is at least 0.60 and the Escalation agent if it is below 0.60.
C2_NormalUrgencyRouting ==
    (Decided /\ decision.urgency \in {"medium", "low"}) =>
        decision.target =
            (IF decision.confidence >= 3 * NormalThreshold THEN "resolver" ELSE "escalation")

C5_SentinelStopsResolver ==
    exactAt # -1 =>
        /\ resolverTools = exactAt
        /\ (pc = "resolver" /\ lastResolver.content = <<NEEDS_ESCALATION>>) => node = END

C5_Witness ==
    /\ exactAt # -1
    /\ lastResolver.content = <<NEEDS_ESCALATION>>
    /\ lastResolver.tool_calls # <<>>
    /\ outcome = "done"

Decorated(content) ==
    Contains(content, NEEDS_ESCALATION) /\ content # <<NEEDS_ESCALATION>>

C8_UnconditionalTransitions ==
    /\ \A i \in 1..Len(invoked) :
          /\ (invoked[i] = "classifier" /\ i < Len(invoked)) =>
                Successor(i) = "retriever"
          /\ (invoked[i] = "retriever" /\ i < Len(invoked)) =>
                /\ Successor(i) \in RoutingAgents
                /\ Successor(i) = decision.target
    /\ (outcome = "done" /\ invoked # <<>>) => Last(invoked) \in RoutingAgents

C8_Witness ==
    /\ Len(invoked) >= 3
    /\ invoked[1] = "classifier"
    /\ invoked[2] = "retriever"
    /\ classification = "high"
    /\ confidence = 150
    /\ outcome = "done"

\* C9: whenever the Supervisor takes the threshold decision, the transcript
\* it routes on states the urgency of the classification and the confidence
\* of the retrieval.
C9_SignalsReadable ==
    (pc = "supervisor" /\ lastAgent = "retriever") =>
        /\ ReadUrgency(messages) # {}
        /\ ReadMarker(messages) # -1

RunIndexes == (Len(messages) + 1)..Len(agentMsgs)

\* the run's model has been invoked, and every response of it so far asked
\* for a tool
AskedEveryTime ==
    /\ \E i \in RunIndexes : agentMsgs[i].role = "ai"
    /\ \A i \in RunIndexes : agentMsgs[i].role = "ai" => agentMsgs[i].tool_calls # <<>>

\* some response of the run held the escalation sentinel
HeldSentinel ==
    \E i \in RunIndexes : Contains(agentMsgs[i].content, NEEDS_ESCALATION)

LoopAgents == {"retriever", "resolver", "escalation"}

\* C11 as stated: the run of an agent whose model asked for a tool at every
\* invocation never reaches the END of the agent's graph (it ends in the
\* recursion-limit failure).
C11_AlwaysToolsEndsAtCeiling ==
    pc \in LoopAgents /\ node = END => ~AskedEveryTime

\* C11 amended: no agent run takes more than StepCeiling steps and every turn
\* ends; the run of an agent whose model asked for a tool at every invocation,
\* and never answered with the escalation sentinel, does not reach the END of
\* the agent's graph: it ends in the recursion-limit failure.
C11_TurnTerminates ==
    /\ [](pc \in Agents => steps <= StepCeiling)
    /\ [](pc \in LoopAgents /\ node = END /\ AskedEveryTime => HeldSentinel)
    /\ (outcome = "running" ~> outcome \in {"done", "failed"})

\* a run whose model asked for a tool at every invocation stands at the ceiling
C11_Witness ==
    /\ pc \in LoopAgents /\ node = "llm_call"
    /\ steps = StepCeiling
    /\ AskedEveryTime /\ ~HeldSentinel

\* ------------------------------------------------ claims on the tool gateway
\* a tool has been called and has come back
Returned == gnode # "tools" /\ result # NoResult

\* C12: whatever the tool, its arguments and the fault of the store or of the
\* search backend, a tool call raises nothing: it returns a mapping that is
\* {error} alone or a payload without the key error.
C12_ToolsNeverRaise ==
    Returned =>
        /\ ~result.raised
        /\ result.keys # {}
        /\ "error" \in result.keys => result.keys = {"error"}

\* the store raised while add_ticket_message ran, and the tool returned {error}
C12_Witness ==
    /\ Returned
    /\ call.tool = "add_ticket_message"
    /\ result.fault
    /\ result.keys = {"error"}

\* the tools that take the id of a record, and the ids no store holds
IdTools ==
    {"get_ticket_info", "update_ticket_status", "add_ticket_message",
     "get_customer_ticket_history", "get_user_general_info",
     "get_user_subscription", "get_user_reservations",
     "get_experience_availability"}

UnknownIds == {UnknownTicket, UnknownExternalUser, UnknownUser, UnknownExperience}

\* C13: a tool that takes an id, called with an id that no store holds,
\* returns {error} alone (the key error and no domain field) and leaves the
\* store as it was.
C13_UnknownIdGivesError ==
    Returned /\ call.tool \in IdTools /\ call.id \in UnknownIds =>
        /\ result.keys = {"error"}
        /\ Store(metadata, ticketMessages) = before

\* the tags a comma-separated string names
TagsOf(s) == {p.name : p \in Split(s)}

\* update_ticket_status has updated a ticket of the store
Updated ==
    /\ Returned
    /\ call.tool = "update_ticket_status"
    /\ "tags" \in result.keys

\* C14: an update whose tags are all on the ticket already leaves the persisted
\* tags as they were, also on a ticket whose tags an earlier update wrote;
\* made again, the same update persists the same tags as it did once.
C14_TagUpdateIdempotent ==
    Updated /\ call.tags # <<>> /\ TagsOf(call.tags) \subseteq TagsOf(before.meta[call.id].tags) =>
        /\ metadata[call.id].tags = before.meta[call.id].tags
        /\ MergeTags(metadata[call.id].tags, call.tags) = metadata[call.id].tags

\* no tag twice in a comma-separated string
NoDuplicate(s) == \A i, j \in 1..Len(s) : i # j => s[i].name # s[j].name

\* the tags of a comma-separated string in alphabetical order
Alphabetical(s) == \A i, j \in 1..Len(s) : i < j => TagRank(s[i].name) < TagRank(s[j].name)

\* C15: an update of a ticket with tags B persists the old tags and those of
\* B, each once, in alphabetical order; and for every tag set A, updating
\* with B and then with A persists the same tags as updating with A and then
\* with B.
C15_TagUpdateIsUnion ==
    Updated /\ call.tags # <<>> =>
        LET old == before.meta[call.id].tags
            B == call.tags
            now == metadata[call.id].tags
        IN  /\ TagsOf(now) = TagsOf(old) \cup TagsOf(B)
            /\ NoDuplicate(now)
            /\ Alphabetical(now)
            /\ \A A \in TagInputs \ {<<>>} :
                   /\ MergeTags(now, A) = MergeTags(MergeTags(old, A), B)
                   /\ NoDuplicate(MergeTags(now, A))
                   /\ Alphabetical(MergeTags(now, A))

\* --------------------------------------------------- claims on failed turns
\* C16: a model invocation that raises ends the turn in failure, with no
\* further step of the agent, and every message appended before the fault,
\* those the running agent appended included, is in the thread's transcript
\* afterwards.
C16_FaultKeepsTranscript ==
    [][ModelFault =>
        /\ outcome' = "failed"
        /\ pc' = "idle"
        /\ Len(messages') >= Len(agentMsgs)
        /\ \A i \in 1..Len(agentMsgs) : messages'[i] = agentMsgs[i]]_vars

\* the one apologetic message a failed turn is to answer with
FallbackMessage == Msg("ai", "supervisor", <<"apology">>, <<>>, -1)

\* C17: a turn that failed (model fault or step ceiling) returns the fallback
\* message to the caller, and not the failure.
C17_FallbackOnFailure ==
    outcome = "failed" =>
        TurnResult = [kind |-> "state", message |-> FallbackMessage]

\* C18: when an agent run is aborted at the step ceiling, the store is as the
\* last tool call of the run left it: status, issue type, tags and appended
\* messages written before the abort are all there.
C18_AbortKeepsWrites ==
    gagent \in GatewayAgents /\ gnode = "GraphRecursionError" =>
        Store(metadata, ticketMessages) = written

\* a run aborted at the ceiling after it appended a message and updated the
\* status and the tags of the ticket
C18_Witness ==
    /\ gagent \in GatewayAgents /\ gnode = "GraphRecursionError"
    /\ Len(ticketMessages) > Len(atRunStart.msgs)
    /\ metadata["T-001"].status = "escalated"
    /\ metadata["T-001"].tags # atRunStart.meta["T-001"].tags

\* the rows the run has added to the messages of ticket T-001
NewRows ==
    {ticketMessages[i] : i \in (Len(atRunStart.msgs) + 1)..Len(ticketMessages)}

\* C19: when a run of the Escalation agent is complete, the store holds a new
\* note of the ticket with the system role and a new message to the customer
\* with the assistant role (stored as agent), and the ticket's status is
\* escalated.
C19_EscalationPersists ==
    gagent = "escalation" /\ gnode = END =>
        /\ \E row \in NewRows : row.ticket_id = "T-001" /\ row.role = "system"
        /\ \E row \in NewRows : row.ticket_id = "T-001" /\ row.role \in {"agent", "ai"}
        /\ metadata["T-001"].status = "escalated"

\* --------------------------------------------------- claims on the Retriever
IsMarker(m) == m.role = "ai" /\ Contains(m.content, "RETRIEVAL_RESULT")

\* the markers appended in the running agent's run
RunMarkers == {i \in RunIndexes : IsMarker(agentMsgs[i])}

\* a response of the model that asks for no tool
PlainResponse(m) == m.role = "ai" /\ m.tool_calls = <<>> /\ ~IsMarker(m)

\* C20 as stated: a Retriever run that is complete has appended exactly one
\* RETRIEVAL_RESULT marker, as the last message of its transcript; the
\* extraction pass runs once, when the latest message is a response of the
\* model that asks for no tool, and the marker comes right behind it.
C20_MarkerEndsRetrieverRun ==
    /\ pc = "retriever" /\ node = END =>
        /\ IsMarker(Last(agentMsgs))
        /\ Cardinality(RunMarkers) = 1
        /\ Len(agentMsgs) - 1 \in RunIndexes
        /\ PlainResponse(agentMsgs[Len(agentMsgs) - 1])
    /\ pc = "retriever" /\ node = "extract_retrieval" =>
        /\ RunMarkers = {}
        /\ PlainResponse(Last(agentMsgs))
    /\ pc = "retriever" /\ node \in {"llm_call", "tools"} => RunMarkers = {}

\* C20 amended: a Retriever run with a model client configured that is
\* complete has appended exactly one RETRIEVAL_RESULT marker, as the last
\* message of its transcript; the extraction pass runs once, when the latest
\* message is a response of the model that asks for no tool, and the marker
\* comes right behind it.
C20_MarkerWithModelClient == llm => C20_MarkerEndsRetrieverRun

\* a complete Retriever run that went through a tool round before its marker
C20_Witness ==
    /\ pc = "retriever" /\ node = END
    /\ \E i \in RunIndexes : agentMsgs[i].role = "tool" /\ agentMsgs[i].name # "transfer_to"
    /\ IsMarker(Last(agentMsgs))

\* ------------------------------------------------ claims on the retrieval result
\* C21: every confidence the Retriever emits lies in exactly one of the four
\* confidence bands.
C21_BandsPartition ==
    confidence # -1 => Cardinality(BandsOf(confidence)) = 1

\* the RETRIEVAL_RESULT markers of a transcript
Markers(msgs) == {msgs[i] : i \in {j \in 1..Len(msgs) : IsMarker(msgs[j])}}

\* the count of articles a marker prints
ReadArticles(m) == CHOOSE n \in -1..2 : Contains(m.content, FormatArticles(n))

\* the confidence of every result the Retriever emitted is within [0,1]
ConfidenceWithinBounds ==
    /\ confidence # -1 => 0 <= confidence /\ confidence <= 300
    /\ decision.confidence # -1 => 0 <= decision.confidence /\ decision.confidence <= 300
    /\ \A m \in Markers(messages) \cup Markers(agentMsgs) : 0 <= m.conf /\ m.conf <= 100

\* C22: every result the Retriever emits has a confidence within [0,1] and a
\* count of articles that is not negative, in the structured field, in the
\* marker of the transcript and at the routing decision.
C22_ResultWithinBounds ==
    /\ ConfidenceWithinBounds
    /\ \A m \in Markers(messages) \cup Markers(agentMsgs) : ReadArticles(m) >= 0

\* the roles add_ticket_message recognises
RecognisedRoles == {"agent", "user", "system"}

\* the row the latest request added to the message table
AddedRow == Last(ticketMessages)

\* C23: add_ticket_message stores and returns the lower-cased role when that
\* is agent, user or system, and agent for every other role; unless the store
\* fails, the call returns no error whatever the role.
C23_RoleNormalised ==
    Returned /\ call.tool = "add_ticket_message" /\ ~result.fault =>
        LET expected == IF Lower(call.role) \in RecognisedRoles
                        THEN Lower(call.role) ELSE "agent"
        IN  /\ "error" \notin result.keys
            /\ result.payload.role = expected
            /\ Len(ticketMessages) = Len(before.msgs) + 1
            /\ AddedRow = TicketMessage(call.id, expected, call.content)

\* a role outside the recognised ones has been stored as agent, and an
\* upper-case one in lower case
C23_Witness ==
    /\ Returned /\ call.tool = "add_ticket_message" /\ ~result.fault
    /\ call.role = "bogus"
    /\ AddedRow.role = "agent"
    /\ \E i \in 1..Len(ticketMessages) : ticketMessages[i].role = "system"
    /\ gsteps = 2

\* how many entries of a sequence equal e
Count(s, e) == Cardinality({k \in 1..Len(s) : s[k] = e})

\* role and content of the rows a message table holds for a ticket
StoredEntries(id) ==
    {[role |-> ticketMessages[i].role, content |-> ticketMessages[i].content] :
        i \in {j \in 1..Len(ticketMessages) : ticketMessages[j].ticket_id = id}}

\* C24: for a ticket of the store, unless the store fails, get_ticket_info
\* returns the ticket's id, channel, user name, status, issue type and tags as
\* stored and one {role, content} entry per stored message of the ticket, none
\* missing and none added, and leaves the store as it was.
C24_TicketInfoComplete ==
    Returned /\ call.tool = "get_ticket_info" /\ call.id \in TicketIds /\ ~result.fault =>
        LET p == result.payload
        IN  /\ result.keys = {"ticket_id", "channel", "created_at", "user", "status",
                              "issue_type", "tags", "messages"}
            /\ p.ticket_id = call.id
            /\ p.channel = Tickets[call.id].channel
            /\ p.user = Tickets[call.id].user
            /\ p.status = metadata[call.id].status
            /\ p.issue_type = metadata[call.id].issue_type
            /\ p.tags = metadata[call.id].tags
            /\ \A k \in 1..Len(p.messages) : p.messages[k] \in StoredEntries(call.id)
            /\ \A e \in StoredEntries(call.id) :
                   Count(p.messages, e) =
                       Cardinality({i \in 1..Len(ticketMessages) :
                                       /\ ticketMessages[i].ticket_id = call.id
                                       /\ ticketMessages[i].role = e.role
                                       /\ ticketMessages[i].content = e.content})
            /\ Store(metadata, ticketMessages) = before

\* get_ticket_info has returned the history of a ticket from a store that
\* holds a message of another ticket id too
C24_Witness ==
    /\ Returned /\ call.tool = "get_ticket_info" /\ call.id \in TicketIds /\ ~result.fault
    /\ Len(result.payload.messages) < Len(ticketMessages)
    /\ result.payload.messages # <<>>

\* ------------------------------------------------ claims on the turn's answer
\* the Resolver has run in the turn and is not running any more
ResolverLeft == lastResolver # NoMsg /\ pc # "resolver"

IsPrefix(s, t) == Len(s) <= Len(t) /\ \A i \in 1..Len(s) : t[i] = s[i]

\* C26: the transcript of a turn on a thread extends what the previous turn
\* on that thread left (what was saved for the thread when the turn began is
\* a prefix of it), and the transcripts saved for the other threads are as
\* they were when the turn began.
C26_MemoryPerThread ==
    thread # "none" =>
        /\ IsPrefix(started[thread], checkpoints[thread])
        /\ Len(checkpoints[thread]) > Len(started[thread])
        /\ \A t \in ThreadIds \ {thread} : checkpoints[t] = started[t]

\* a second turn on a thread runs after a turn on the other thread: both
\* threads hold a transcript, and the running turn has added to its own
C26_Witness ==
    /\ thread = "thread-1"
    /\ turns = 2
    /\ supersteps > 0
    /\ started["thread-1"] # <<>>
    /\ started["thread-2"] # <<>>
    /\ checkpoints["thread-2"] = started["thread-2"]

\* ------------------------------------------------ claims on the agents' tools
\* C27: every tool of the agent that is running is an operation the gateway
\* modules define.
C27_ToolsDefined ==
    pc \in Agents => ToolSet(pc) \subseteq GatewayOps

\* C28: when the response of the Classifier's model asks for a tool, the
\* classification of the run is not produced before the tool has been executed
\* and its tool-result message is in the transcript of the run.
C28_ClassifierExecutesTools ==
    (pc = "classifier" /\ requested # <<>> /\ classification # "none") =>
        \A k \in 1..Len(requested) :
            \E i \in RunIndexes : agentMsgs[i] = ToolMessage(requested[k])

\* ----------------------------------------------- claims on the tool rounds
\* the model is invoked, or the run has ended, only with every call of the
\* previous response answered: one tool-result message per call, in the
\* order of the calls
AnsweredInOrder ==
    gnode \in {"llm_call", END} /\ toolCalls # <<>> =>
        /\ Len(answers) = Len(toolCalls)
        /\ \A i \in 1..Len(toolCalls) : answers[i] = ToolMessage(toolCalls[i].tool)
        /\ Len(ran) = Len(toolCalls)

\* C29: the model is not invoked again before every call of its previous
\* response is answered by one tool-result message, in the order requested,
\* and the calls are run one at a time in the order requested.
C29_ToolsOneAtATimeInOrder ==
    /\ AnsweredInOrder
    /\ \A k \in 1..Len(ran) : ran[k] = k

\* ------------------------------------------------ claims on the routing signal
\* the threshold rule applied to the structured confidence (in 1/300ths)
StructuredRoute(urgency, c) ==
    IF c >= 3 * Threshold(urgency) THEN "resolver" ELSE "escalation"

\* C30: at the routing decision behind a retrieval, for every urgency, the
\* threshold applied to the confidence the marker prints gives the same
\* resolve-or-escalate decision as the threshold applied to the structured
\* confidence.
C30_MarkerSameSignal ==
    (Decided /\ decision.confidence # -1 /\ decision.marker # -1) =>
        \A u \in Urgency :
            RouteByThreshold(u, decision.marker) = StructuredRoute(u, decision.confidence)

\* ------------------------------------------------ claims on the transcript
\* C31: every step of a running agent (model call, tool execution, extraction
\* pass) leaves the agent's transcript with the transcript before the step as
\* a prefix, and every step of the turn leaves the thread's transcript so: no
\* step removes, reorders or rewrites an earlier message.
C31_TranscriptAppendOnly ==
    [][/\ (pc \in Agents /\ pc' = pc) => IsPrefix(agentMsgs, agentMsgs')
       /\ outcome = "running" => IsPrefix(messages, messages')]_vars

\* a Retriever run that took a model call with a tool request, the tool
\* execution, a second model call and the extraction pass
C31_Witness ==
    /\ pc = "retriever" /\ node = END
    /\ Len(agentMsgs) = Len(messages) + 4
    /\ agentMsgs[Len(messages) + 1].tool_calls # <<>>
    /\ agentMsgs[Len(messages) + 2].role = "tool"
    /\ IsMarker(Last(agentMsgs))

\* the tool calls of the i-th message of a transcript are each followed by
\* their tool-result message, in the order of the calls
Answered(msgs, i) ==
    \A k \in 1..Len(msgs[i].tool_calls) :
        /\ i + k <= Len(msgs)
        /\ msgs[i + k] = ToolMessage(msgs[i].tool_calls[k])

\* C36: when the run of an agent has reached the END of its graph, every tool
\* call that an assistant message of its transcript asks for is followed by
\* the tool-result message of that call.
C36_NoDanglingToolCall ==
    (pc \in Agents /\ node = END) =>
        \A i \in 1..Len(agentMsgs) : agentMsgs[i].role = "ai" => Answered(agentMsgs, i)

C33_UpdateFrame ==
    Updated =>
        LET old == before.meta[call.id]
            now == metadata[call.id]
        IN  /\ now.status = call.status
            /\ now.issue_type = (IF call.issue_type # "" THEN call.issue_type
                                 ELSE old.issue_type)
            /\ call.tags = <<>> => now.tags = old.tags
            /\ DOMAIN metadata = DOMAIN before.meta
            /\ \A t \in DOMAIN metadata \ {call.id} : metadata[t] = before.meta[t]
            /\ ticketMessages = before.msgs

\* a second update of the ticket, with a status alone, has left the issue
\* type that the first update wrote, beside the other tickets of the store
C33_Witness ==
    /\ Updated
    /\ call.issue_type = "" /\ call.tags = <<>> /\ call.status = "escalated"
    /\ metadata[call.id] = TicketMetadata("escalated", "billing", before.meta[call.id].tags)
    /\ before.meta[call.id].status = "resolved"
    /\ metadata["T-002"].status = "open"

\* the tickets of the user the latest request names
TicketsOfUser == {t \in DOMAIN Tickets : Tickets[t].external_user_id = call.id}

\* get_customer_ticket_history has returned the history of an existing user
HistoryReturned ==
    /\ Returned /\ ~result.fault
    /\ call.tool = "get_customer_ticket_history"
    /\ call.id \in ExternalUserIds

\* C34: for an existing user and a limit n that is not negative, the history
\* holds n tickets of the user, or all of them when they are fewer, each once,
\* the most recently created first and none older than one left out is in,
\* and the store is as it was.
C34_HistoryMostRecentFirst ==
    HistoryReturned =>
        LET ts == result.payload.tickets
            ids == {ts[k].ticket_id : k \in 1..Len(ts)}
        IN  /\ Len(ts) <= call.limit
            /\ Len(ts) = (IF call.limit < Cardinality(TicketsOfUser)
                          THEN call.limit ELSE Cardinality(TicketsOfUser))
            /\ ids \subseteq TicketsOfUser
            /\ Cardinality(ids) = Len(ts)
            /\ \A j, k \in 1..Len(ts) :
                   j < k => Tickets[ts[j].ticket_id].created_at >= Tickets[ts[k].ticket_id].created_at
            /\ \A t \in TicketsOfUser \ ids :
                   \A u \in ids : Tickets[u].created_at >= Tickets[t].created_at
            /\ Store(metadata, ticketMessages) = before

\* with limit 2, of the user's three tickets the two newest have come back
C34_Witness ==
    /\ HistoryReturned
    /\ call.limit = 2
    /\ Len(result.payload.tickets) = 2
    /\ result.payload.tickets[1].ticket_id = "T-002"
    /\ result.payload.tickets[2].ticket_id = "T-001"

RanTools == {toolCalls[ran[k]].tool : k \in 1..Len(ran)}

\* C35: whatever tool names are asked for, a Retriever run runs no tool but
\* the knowledge search and leaves the ticket store as it was, and a
\* Classifier run runs no tool but get_ticket_info and update_ticket_status
\* and adds no message to a ticket.
C35_OwnToolsOnly ==
    /\ pc = "retriever" =>
          /\ RanTools \subseteq {"search_knowledge_base"}
          /\ Store(metadata, ticketMessages) = atRunStart
    /\ pc = "classifier" =>
          /\ RanTools \subseteq {"get_ticket_info", "update_ticket_status"}
          /\ ticketMessages = atRunStart.msgs

\* a Retriever run has come to its END after its model asked for an update
\* of the ticket, which the ToolNode answered without running it
C35_Witness ==
    /\ pc = "retriever" /\ node = END
    /\ toolCalls # <<>> /\ toolCalls[1].tool = "update_ticket_status"
    /\ ran = <<>>
    /\ answers = <<InvalidToolMessage("update_ticket_status")>>
    /\ \E i \in RunIndexes : agentMsgs[i] = InvalidToolMessage("update_ticket_status")

\* C37: a Classifier run ends, whatever its model answers and whatever
\* transcript it is given, within three steps, which no step ceiling cuts
\* short: extraction passes at its first and third step at most, a tool round
\* at its second step at most, and no message appended by an extraction pass.
C37_ClassifierTerminates ==
    /\ [](pc = "classifier" =>
            /\ steps <= 3
            /\ node = "extract_classification" => steps \in {0, 2}
            /\ node = "tools" => steps = 1
            /\ node # END => WithinCeiling(steps))
    /\ [][pc = "classifier" /\ node = "extract_classification" =>
            agentMsgs' = agentMsgs \/ pc' # pc]_vars
    /\ (pc = "classifier" ~> (node = END \/ outcome = "failed"))

\* a Classifier run at its END after two extraction passes and a tool round
\* that updated the ticket
C37_Witness ==
    /\ pc = "classifier" /\ node = END
    /\ steps = 3
    /\ RanTools = {"update_ticket_status"}
    /\ metadata["T-001"].status = "in_progress"
    /\ classification # "none"

\* ------------------------------------------------ claims on concurrency
\* an invocation that has started and has not returned
InProgress(r) == inflight[r].at \notin {"idle", "done"}

\* C32: an invocation has one agent running at most, and no agent runs for a
\* thread id while another invocation on the same thread id is in progress,
\* so the agent steps and the transcript updates of two turns on one thread
\* id do not interleave.
C32_OneInvocationPerThread ==
    \A r1, r2 \in Invocations :
        (r1 # r2 /\ inflight[r1].at \in Agents /\ InProgress(r2)) =>
            inflight[r1].thread # inflight[r2].thread

====
